---- MODULE Spec2Model ----
(***************************************************************************)
(* A model of src/src/template.cpp: the validated-input accumulator        *)
(* (readInt, readVector, validateRange, canAdd, canMultiply, solve, main). *)
(*                                                                         *)
(* Widths.  The program computes with a 32-bit `int` and a 64-bit          *)
(* `long long`.  TLC's integers are 32 bits wide, so the model keeps the   *)
(* two widths and their ratio but scales them: `int` is IntBits wide and   *)
(* `long long` is 2 * IntBits wide.  The count ceiling 1000000 of solve()  *)
(* is scaled to MaxCount, and LLINF (9e18, the largest long long cut down  *)
(* to one significant decimal digit) is derived the same way from the      *)
(* scaled LLONG_MAX.  The relations the program relies on are kept:        *)
(*    MaxCount < INT_MAX < LLINF < LLONG_MAX,  MaxCount * 2^(IntBits-1) <  *)
(*    LLINF.                                                               *)
(*                                                                         *)
(* Input.  Standard input is a sequence of whitespace-delimited tokens.    *)
(* A token is modelled by what `cin >> x` can see of it: a decimal integer *)
(* with its mathematical value, or a token that is no integer.  Standard   *)
(* output and the error channel are modelled as what is written to them:   *)
(* a sequence of characters, and a sequence of diagnostics.                *)
(***************************************************************************)
EXTENDS Integers, Sequences, FiniteSets, TLC

\* ------------------------------------------------------------------ bounds
\* Width of `int` in bits (32 in the program).
IntBits == 4
\* The count ceiling of solve() (1000000 in the program, template.cpp:214).
MaxCount == 3

\* ------------------------------------------------------- integer types
LLBits == 2 * IntBits
INT_MAX == 2^(IntBits - 1) - 1
INT_MIN == -(2^(IntBits - 1))
LLONG_MAX == 2^(LLBits - 1) - 1
LLONG_MIN == -(2^(LLBits - 1))

IntRange == INT_MIN..INT_MAX
LLRange == LLONG_MIN..LLONG_MAX

\* The value with one significant decimal digit at or below x: 9e18 for the
\* 64-bit LLONG_MAX 9223372036854775807.
RECURSIVE OneDigitFloor(_)
OneDigitFloor(x) ==
    IF x < 10 THEN x ELSE 10 * OneDigitFloor(x \div 10)

\* A plausible slip: the int-sized limit where the long long one is meant.
LLINF_IntSized == INT_MAX

\* const ll LLINF = 9e18;
LLINF == OneDigitFloor(LLONG_MAX)

\* long long addition, `sum += x`, with the two's complement result.  The
\* program adds only after canAdd accepted, when a + b is in range.
AddLL(a, b) ==
    ((a + b - LLONG_MIN) % (2^LLBits)) + LLONG_MIN

Abs(x) == IF x < 0 THEN -x ELSE x

\* ------------------------------------------------------------- tokens
IntTok(val) == [kind |-> "int", val |-> val]
BadTok == [kind |-> "bad", val |-> 0]
EofTok == [kind |-> "eof", val |-> 0]

\* The integer values the inputs are drawn from: the boundaries of the count
\* range, of `int` and of `long long`, and small values of both signs.
TokenValues ==
    {LLONG_MIN, INT_MIN, -1, INT_MAX, INT_MAX + 1, LLONG_MAX}
        \cup (0..(MaxCount + 1))

Tokens == {IntTok(val) : val \in TokenValues} \cup {BadTok}

SeqsUpTo(S, m) == UNION {[1..l -> S] : l \in 0..m}

\* ---------------------------------------------------------- diagnostics
Diag(msg, args) == [msg |-> msg, args |-> args]
ParseDiag == Diag("Failed to read integer", <<>>)
RangeDiag(value, lo, hi) == Diag("Value out of range", <<value, lo, hi>>)
OverflowDiag(a, b) == Diag("Addition overflow", <<a, b>>)
UnderflowDiag(a, b) == Diag("Addition underflow", <<a, b>>)
MulDiag(a, b) == Diag("Multiplication overflow", <<a, b>>)

\* -------------------------------------------------- validation helpers
\* A plausible slip: exclusive bounds.
ValidateRangeExclusive(value, min_val, max_val) ==
    IF value <= min_val \/ value >= max_val
    THEN [ok |-> FALSE, diag |-> <<RangeDiag(value, min_val, max_val)>>]
    ELSE [ok |-> TRUE, diag |-> <<>>]

\* bool validateRange(ll value, ll min_val, ll max_val)
ValidateRange(value, min_val, max_val) ==
    IF value < min_val \/ value > max_val
    THEN [ok |-> FALSE, diag |-> <<RangeDiag(value, min_val, max_val)>>]
    ELSE [ok |-> TRUE, diag |-> <<>>]

\* A plausible slip: the comparisons turned around.
CanAddInverted(a, b) ==
    IF b > 0 /\ a < LLINF - b
    THEN [ok |-> FALSE, diag |-> <<OverflowDiag(a, b)>>]
    ELSE IF b < 0 /\ a > -LLINF - b
    THEN [ok |-> FALSE, diag |-> <<UnderflowDiag(a, b)>>]
    ELSE [ok |-> TRUE, diag |-> <<>>]

\* bool canAdd(ll a, ll b)
CanAdd(a, b) ==
    IF b > 0 /\ a > LLINF - b
    THEN [ok |-> FALSE, diag |-> <<OverflowDiag(a, b)>>]
    ELSE IF b < 0 /\ a < -LLINF - b
    THEN [ok |-> FALSE, diag |-> <<UnderflowDiag(a, b)>>]
    ELSE [ok |-> TRUE, diag |-> <<>>]

\* The long long values canAdd computes on the way: LLINF - b when b > 0,
\* and otherwise, when b < 0, -LLINF and -LLINF - b.
CanAddTemps(a, b) ==
    IF b > 0 THEN {LLINF - b}
    ELSE IF b < 0 THEN {-LLINF, -LLINF - b}
    ELSE {}

\* bool canMultiply(ll a, ll b): the set of results a build can produce.
\* abs(b) overflows for b = LLONG_MIN, which is undefined: either result.
CanMultiply(a, b) ==
    IF a = 0 \/ b = 0
    THEN {[ok |-> TRUE, diag |-> <<>>]}
    ELSE IF b = LLONG_MIN
    THEN {[ok |-> TRUE, diag |-> <<>>],
          [ok |-> FALSE, diag |-> <<MulDiag(a, b)>>]}
    ELSE IF a > LLINF \div Abs(b)
    THEN {[ok |-> FALSE, diag |-> <<MulDiag(a, b)>>]}
    ELSE {[ok |-> TRUE, diag |-> <<>>]}

\* ------------------------------------------------------------- reading
\* `cin >> x` with `int x`: succeeds on a decimal integer that fits an int.
Extracts(tok) ==
    tok.kind = "int" /\ tok.val >= INT_MIN /\ tok.val <= INT_MAX

\* int readInt(int min_val, int max_val) on the next token of the stream.
ReadInt(tok, min_val, max_val) ==
    IF ~Extracts(tok)
    THEN [ok |-> FALSE, x |-> 0, taken |-> 0, diag |-> <<ParseDiag>>]
    ELSE LET r == ValidateRange(tok.val, min_val, max_val)
         IN  IF ~r.ok
             THEN [ok |-> FALSE, x |-> tok.val, taken |-> 1, diag |-> r.diag]
             ELSE [ok |-> TRUE, x |-> tok.val, taken |-> 1, diag |-> <<>>]

\* ------------------------------------------------------------- writing
DigitChar == <<"0", "1", "2", "3", "4", "5", "6", "7", "8", "9">>

RECURSIVE Digits(_)
Digits(m) ==
    IF m < 10 THEN <<DigitChar[m + 1]>>
    ELSE Append(Digits(m \div 10), DigitChar[(m % 10) + 1])

\* operator<<(long long): the decimal text of x.
Decimal(x) == IF x < 0 THEN <<"-">> \o Digits(-x) ELSE Digits(x)

\* A plausible slip: the line is not terminated.
WriteSumNoNewline(x) == Decimal(x)

\* cout << sum << el
WriteSum(x) == Decimal(x) \o <<"\n">>

\* ---------------------------------------------------------------- state
VARIABLES
    stdin,    \* the tokens of standard input
    pos,      \* index of the next token of stdin
    pc,       \* program position
    n,        \* solve(): the count (0 while not yet read)
    v,        \* solve(): the vector readVector fills
    i,        \* readVector(): loop index
    k,        \* solve(): number of elements of v already summed
    sum,      \* solve(): the running sum
    out,      \* characters written to standard output
    err,      \* diagnostics written to the error channel
    status,   \* exit status (-1 while the process runs)
    args,     \* operands of a helper called on its own
    ret       \* what that helper returned

\* src/templates/graph.cpp: the graph and bfs().
VARIABLES
    vertices, \* Graph::vertices
    adj,      \* Graph::adj, the adjacency lists of the vertices 0..vertices-1
    edges,    \* the pairs {u, v} addEdge was called with
    start,    \* bfs(): the start vertex (-1 while bfs is not called)
    distance, \* bfs(): the distance vector
    q,        \* bfs(): the queue
    u,        \* bfs(): the vertex popped last
    nb,       \* bfs(): index in adj[u] of the neighbour the for loop is at
    pushes    \* bfs(): how often q.push was called with each vertex

progVars == <<stdin, pos, pc, n, v, i, k, sum, out, err, status, args, ret>>

bfsVars == <<vertices, adj, edges, start, distance, q, u, nb, pushes>>

vars == <<stdin, pos, pc, n, v, i, k, sum, out, err, status, args, ret,
          vertices, adj, edges, start, distance, q, u, nb, pushes>>

\* No graph: the state of graph.cpp while template.cpp is what runs.
BfsIdle ==
    /\ vertices = 0
    /\ adj = <<>>
    /\ edges = {}
    /\ start = -1
    /\ distance = <<>>
    /\ q = <<>>
    /\ u = -1
    /\ nb = 0
    /\ pushes = <<>>

NextTok == IF pos <= Len(stdin) THEN stdin[pos] ELSE EofTok

\* ------------------------------------------------------- the program
Init ==
    /\ stdin \in SeqsUpTo(Tokens, MaxCount + 1)
    /\ pos = 1
    /\ pc = "readCount"
    /\ n = 0
    /\ v = <<>>
    /\ i = 0
    /\ k = 0
    /\ sum = 0
    /\ out = <<>>
    /\ err = <<>>
    /\ status = -1
    /\ args = <<>>
    /\ ret = <<>>
    /\ BfsIdle

\* int n = readInt(1, 1000000);
SolveReadCount ==
    /\ pc = "readCount"
    /\ LET r == ReadInt(NextTok, 1, MaxCount)
       IN  /\ pos' = pos + r.taken
           /\ err' = err \o r.diag
           /\ IF r.ok
              THEN /\ n' = r.x
                   /\ pc' = "allocVector"
                   /\ status' = status
              ELSE /\ n' = n
                   /\ pc' = "done"
                   /\ status' = 1
    /\ UNCHANGED <<stdin, v, i, k, sum, out, args, ret>>
    /\ UNCHANGED bfsVars

\* readVector: vi v(n);
AllocVector ==
    /\ pc = "allocVector"
    /\ v' = [j \in 1..n |-> 0]
    /\ i' = 0
    /\ pc' = "readElem"
    /\ UNCHANGED <<stdin, pos, n, k, sum, out, err, status, args, ret>>
    /\ UNCHANGED bfsVars

\* readVector: v[i] = readInt(min_val, max_val); i++
ReadElem ==
    /\ pc = "readElem"
    /\ i < n
    /\ LET r == ReadInt(NextTok, INT_MIN, INT_MAX)
       IN  /\ pos' = pos + r.taken
           /\ err' = err \o r.diag
           /\ IF r.ok
              THEN /\ v' = [v EXCEPT ![i + 1] = r.x]
                   /\ i' = i + 1
                   /\ pc' = pc
                   /\ status' = status
              ELSE /\ v' = v
                   /\ i' = i
                   /\ pc' = "done"
                   /\ status' = 1
    /\ UNCHANGED <<stdin, n, k, sum, out, args, ret>>
    /\ UNCHANGED bfsVars

\* readVector: return v;  solve: ll sum = 0;
ReturnVector ==
    /\ pc = "readElem"
    /\ i = n
    /\ sum' = 0
    /\ k' = 0
    /\ pc' = "sumLoop"
    /\ UNCHANGED <<stdin, pos, n, v, i, out, err, status, args, ret>>
    /\ UNCHANGED bfsVars

\* solve: if (!canAdd(sum, x)) exit(1); sum += x;
SumStep ==
    /\ pc = "sumLoop"
    /\ k < n
    /\ LET x == v[k + 1]
           c == CanAdd(sum, x)
       IN  /\ err' = err \o c.diag
           /\ IF c.ok
              THEN /\ sum' = AddLL(sum, x)
                   /\ k' = k + 1
                   /\ pc' = pc
                   /\ status' = status
              ELSE /\ sum' = sum
                   /\ k' = k
                   /\ pc' = "done"
                   /\ status' = 1
    /\ UNCHANGED <<stdin, pos, n, v, i, out, args, ret>>
    /\ UNCHANGED bfsVars

\* solve: cout << sum << el;  main: return 0;
PrintSum ==
    /\ pc = "sumLoop"
    /\ k = n
    /\ out' = out \o WriteSum(sum)
    /\ status' = 0
    /\ pc' = "done"
    /\ UNCHANGED <<stdin, pos, n, v, i, k, sum, err, args, ret>>
    /\ UNCHANGED bfsVars

Next ==
    \/ SolveReadCount
    \/ AllocVector
    \/ ReadElem
    \/ ReturnVector
    \/ SumStep
    \/ PrintSum

Spec == Init /\ [][Next]_vars

\* ------------------------------------------- helpers called on their own
\* canAdd and canMultiply on any two long long operands.
InitArith ==
    /\ stdin = <<>>
    /\ pos = 1
    /\ pc = "call"
    /\ n = 0
    /\ v = <<>>
    /\ i = 0
    /\ k = 0
    /\ sum = 0
    /\ out = <<>>
    /\ err = <<>>
    /\ status = -1
    /\ args \in LLRange \X LLRange
    /\ ret = <<>>
    /\ BfsIdle

\* if (!canAdd(a, b)) ...; a += b;  with a = args[1], b = args[2]
CheckedAdd ==
    /\ pc = "call"
    /\ LET a == args[1]
           b == args[2]
           c == CanAdd(a, b)
       IN  /\ err' = err \o c.diag
           /\ ret' = <<[fn |-> "canAdd", ok |-> c.ok,
                        val |-> IF c.ok THEN AddLL(a, b) ELSE a]>>
    /\ pc' = "returned"
    /\ UNCHANGED <<stdin, pos, n, v, i, k, sum, out, status, args>>
    /\ UNCHANGED bfsVars

\* canMultiply(a, b)  with a = args[1], b = args[2]
CallCanMultiply ==
    /\ pc = "call"
    /\ \E c \in CanMultiply(args[1], args[2]) :
           /\ err' = err \o c.diag
           /\ ret' = <<[fn |-> "canMultiply", ok |-> c.ok, val |-> 0]>>
    /\ pc' = "returned"
    /\ UNCHANGED <<stdin, pos, n, v, i, k, sum, out, status, args>>
    /\ UNCHANGED bfsVars

NextArith ==
    \/ CheckedAdd
    \/ CallCanMultiply

SpecArith == InitArith /\ [][NextArith]_vars

\* readInt(min_val, max_val) on any next token and any bounds min <= max.
InitRead ==
    /\ stdin \in SeqsUpTo(Tokens, 1)
    /\ pos = 1
    /\ pc = "call"
    /\ n = 0
    /\ v = <<>>
    /\ i = 0
    /\ k = 0
    /\ sum = 0
    /\ out = <<>>
    /\ err = <<>>
    /\ status = -1
    /\ args \in {<<lo, hi>> : lo \in IntRange, hi \in IntRange}
    /\ args[1] <= args[2]
    /\ ret = <<>>
    /\ BfsIdle

\* readInt(args[1], args[2]): returns x, or exit(1) after the diagnostic
CallReadInt ==
    /\ pc = "call"
    /\ LET r == ReadInt(NextTok, args[1], args[2])
       IN  /\ pos' = pos + r.taken
           /\ err' = err \o r.diag
           /\ IF r.ok
              THEN /\ ret' = <<[fn |-> "readInt", ok |-> TRUE, val |-> r.x]>>
                   /\ pc' = "returned"
                   /\ status' = status
              ELSE /\ ret' = ret
                   /\ pc' = "done"
                   /\ status' = 1
    /\ UNCHANGED <<stdin, n, v, i, k, sum, out, args>>
    /\ UNCHANGED bfsVars

NextRead == CallReadInt

SpecRead == InitRead /\ [][NextRead]_vars

\* ------------------------------------------------- graph.cpp: bfs
\* The largest number of vertices of a graph.
MaxVertices == 4
\* The largest number of addEdge calls on a graph.
MaxEdges == 3

\* The vertices of the graph: 0 .. vertices - 1.
Vertices == 0..(vertices - 1)

\* A plausible slip: the edge is stored in one direction only.
AddEdgeDirected(a, x, y) ==
    [a EXCEPT ![x] = Append(@, y)]

\* Graph::addEdge: adj[u].push_back(v); adj[v].push_back(u);
AddEdgeAdj(a, x, y) ==
    LET a1 == [a EXCEPT ![x] = Append(@, y)]
    IN  [a1 EXCEPT ![y] = Append(@, x)]

\* The number of addEdge calls so far: each one pushed two entries.
RECURSIVE AdjEntries(_)
AdjEntries(x) ==
    IF x < 0 THEN 0 ELSE Len(adj[x]) + AdjEntries(x - 1)

EdgeCount == AdjEntries(vertices - 1) \div 2

\* Graph g(vertices);
InitBfs ==
    /\ stdin = <<>>
    /\ pos = 1
    /\ pc = "build"
    /\ n = 0
    /\ v = <<>>
    /\ i = 0
    /\ k = 0
    /\ sum = 0
    /\ out = <<>>
    /\ err = <<>>
    /\ status = -1
    /\ args = <<>>
    /\ ret = <<>>
    /\ vertices \in 1..MaxVertices
    /\ adj = [x \in Vertices |-> <<>>]
    /\ edges = {}
    /\ start = -1
    /\ distance = <<>>
    /\ q = <<>>
    /\ u = -1
    /\ nb = 0
    /\ pushes = <<>>

\* g.addEdge(x, y)
AddEdge ==
    /\ pc = "build"
    /\ EdgeCount < MaxEdges
    /\ \E x \in Vertices, y \in Vertices :
           /\ adj' = AddEdgeAdj(adj, x, y)
           /\ edges' = edges \cup {{x, y}}
    /\ UNCHANGED <<vertices, start, distance, q, u, nb, pushes>>
    /\ UNCHANGED progVars

\* bfs(g, s): vi distance(vertices, -1); q.push(start); distance[start] = 0;
CallBfs ==
    /\ pc = "build"
    /\ \E s \in Vertices :
           /\ start' = s
           /\ distance' = [x \in Vertices |-> IF x = s THEN 0 ELSE -1]
           /\ q' = <<s>>
           /\ pushes' = [x \in Vertices |-> IF x = s THEN 1 ELSE 0]
    /\ pc' = "bfsLoop"
    /\ UNCHANGED <<vertices, adj, edges, u, nb>>
    /\ UNCHANGED <<stdin, pos, n, v, i, k, sum, out, err, status, args, ret>>

\* while (!q.empty()) { int u = q.front(); q.pop();
BfsPop ==
    /\ pc = "bfsLoop"
    /\ q # <<>>
    /\ u' = Head(q)
    /\ q' = Tail(q)
    /\ nb' = 1
    /\ pc' = "bfsFor"
    /\ UNCHANGED <<vertices, adj, edges, start, distance, pushes>>
    /\ UNCHANGED <<stdin, pos, n, v, i, k, sum, out, err, status, args, ret>>

\* for (int v : graph.adj[u]) if (distance[v] == -1) {
\*     distance[v] = distance[u] + 1; q.push(v); }
BfsVisit ==
    /\ pc = "bfsFor"
    /\ nb <= Len(adj[u])
    /\ LET w == adj[u][nb]
       IN  IF distance[w] = -1
           THEN /\ distance' = [distance EXCEPT ![w] = distance[u] + 1]
                /\ q' = Append(q, w)
                /\ pushes' = [pushes EXCEPT ![w] = @ + 1]
           ELSE UNCHANGED <<distance, q, pushes>>
    /\ nb' = nb + 1
    /\ UNCHANGED <<vertices, adj, edges, start, u>>
    /\ UNCHANGED progVars

\* the for loop over adj[u] is through: back to the while condition
BfsForEnd ==
    /\ pc = "bfsFor"
    /\ nb > Len(adj[u])
    /\ pc' = "bfsLoop"
    /\ UNCHANGED bfsVars
    /\ UNCHANGED <<stdin, pos, n, v, i, k, sum, out, err, status, args, ret>>

\* the queue is empty: return distance;
BfsReturn ==
    /\ pc = "bfsLoop"
    /\ q = <<>>
    /\ ret' = <<distance>>
    /\ pc' = "bfsDone"
    /\ UNCHANGED bfsVars
    /\ UNCHANGED <<stdin, pos, n, v, i, k, sum, out, err, status, args>>

\* One step of bfs().
BfsStep ==
    \/ BfsPop
    \/ BfsVisit
    \/ BfsForEnd
    \/ BfsReturn

NextBfs ==
    \/ AddEdge
    \/ CallBfs
    \/ BfsPop
    \/ BfsVisit
    \/ BfsForEnd
    \/ BfsReturn

SpecBfs == InitBfs /\ [][NextBfs]_vars

\* bfs() is one sequential call: once called, it keeps taking its steps.
SpecBfsFair == SpecBfs /\ WF_vars(BfsStep)

\* ------------------------------------------- the vocabulary of the claims
TokAt(j) == IF j >= 1 /\ j <= Len(stdin) THEN stdin[j] ELSE EofTok

\* A decimal integer token whose value a signed 64-bit integer holds.
InLL(tok) == tok.kind = "int" /\ tok.val \in LLRange

Representable(x) == x \in LLRange

\* The first token is a count the program is to accept.
CountValid ==
    TokAt(1).kind = "int" /\ TokAt(1).val >= 1 /\ TokAt(1).val <= MaxCount

GivenCount == TokAt(1).val

ElemTok(j) == TokAt(1 + j)

\* The first m elements of the input are integers of the signed 64-bit range.
ElemsGiven(m) == \A j \in 1..m : InLL(ElemTok(j))

\* The mathematical sum of the first m elements.
RECURSIVE TrueSum(_)
TrueSum(m) == IF m = 0 THEN 0 ELSE TrueSum(m - 1) + ElemTok(m).val

\* Standard output holds exactly one line, terminated by a newline.
OneLine(text) ==
    /\ Len(text) >= 2
    /\ text[Len(text)] = "\n"
    /\ \A j \in 1..(Len(text) - 1) : text[j] # "\n"

DigitValue(c) == CHOOSE d \in 0..9 : DigitChar[d + 1] = c

RECURSIVE DecimalValue(_)
DecimalValue(s) ==
    IF s = <<>> THEN 0
    ELSE 10 * DecimalValue(SubSeq(s, 1, Len(s) - 1)) + DigitValue(s[Len(s)])

\* The number a decimal text denotes.
TextValue(s) ==
    IF s # <<>> /\ s[1] = "-" THEN -DecimalValue(Tail(s)) ELSE DecimalValue(s)

\* The number on the line standard output holds.
ReportedSum == TextValue(SubSeq(out, 1, Len(out) - 1))

IsOverflowDiag(d) == d.msg \in {"Addition overflow", "Addition underflow"}

\* The input token the reported failure is about (0: no failure): the token
\* a failed read was at, or the element a failed addition was adding.
FailSite ==
    IF err = <<>> THEN 0
    ELSE IF IsOverflowDiag(err[1]) THEN k + 2
    ELSE IF n = 0 THEN 1
    ELSE i + 2

\* ------------------------------------------------------------ the claims

\* C1: on every input made of a valid count n followed by n integers whose
\* true sum is representable in signed 64 bits, the program ends having
\* written to standard output one line holding the exact sum of the elements.
SumCorrect ==
    (/\ pc = "done"
     /\ CountValid
     /\ ElemsGiven(GivenCount)
     /\ Representable(TrueSum(GivenCount)))
        => (OneLine(out) /\ ReportedSum = TrueSum(GivenCount))

\* Whenever the program does report a sum, it is the exact sum of the n
\* elements it was given.
ReportedSumExact ==
    (pc = "done" /\ status = 0)
        => (/\ OneLine(out)
            /\ CountValid
            /\ n = GivenCount
            /\ ReportedSum = TrueSum(n))

\* Some prefix of the elements has a true sum outside signed 64 bits.
OverflowsAtSomePrefix ==
    /\ CountValid
    /\ \E m \in 1..GivenCount : ElemsGiven(m) /\ ~Representable(TrueSum(m))

\* The first such prefix.
FirstOverflow ==
    CHOOSE m \in 1..GivenCount :
        /\ ElemsGiven(m)
        /\ ~Representable(TrueSum(m))
        /\ \A l \in 1..(m - 1) : Representable(TrueSum(l))

\* C2: on every input whose running sum leaves the signed 64-bit range at
\* some prefix, the program writes nothing to standard output and ends with
\* an overflow error raised at the first such prefix: when adding that
\* prefix's last element to the exact sum of the elements before it.
OverflowDetected ==
    OverflowsAtSomePrefix
        => /\ out = <<>>
           /\ pc = "done"
                => /\ status # 0
                   /\ Len(err) = 1
                   /\ IsOverflowDiag(err[1])
                   /\ err[1].args = <<TrueSum(FirstOverflow - 1),
                                      ElemTok(FirstOverflow).val>>

\* The count was refused with the diagnostic msg (or the program has yet to
\* read it): no element read, no vector allocated, no output.
CountRefused(msg) ==
    /\ pc \in {"readCount", "done"}
    /\ n = 0
    /\ v = <<>>
    /\ i = 0
    /\ pos <= 2
    /\ out = <<>>
    /\ pc = "done" => (status # 0 /\ Len(err) = 1 /\ err[1].msg = msg)

\* C3: a first token that is an integer outside [1, MaxCount] ends the
\* program with a range error, one that is no integer (or is missing) with a
\* parse error, in both cases with non-zero status and without reading an
\* element, allocating the vector or writing a sum; every count in
\* [1, MaxCount] is accepted.
CountBoundEnforced ==
    LET t == TokAt(1)
    IN  /\ (t.kind = "int" /\ (t.val < 1 \/ t.val > MaxCount))
             => CountRefused("Value out of range")
        /\ t.kind # "int" => CountRefused("Failed to read integer")
        /\ (t.kind = "int" /\ t.val >= 1 /\ t.val <= MaxCount)
             => (pc # "readCount" => (n = t.val /\ FailSite # 1))

\* The first failure of a left-to-right scan of the input that reads the
\* count, then each element in turn, adding each element to the running sum
\* with the overflow check right after reading it.
RECURSIVE ScanElems(_, _, _)
ScanElems(j, s, cnt) ==
    IF j > cnt THEN [diag |-> <<>>, at |-> 0]
    ELSE LET r == ReadInt(ElemTok(j), INT_MIN, INT_MAX)
         IN  IF ~r.ok THEN [diag |-> r.diag, at |-> 1 + j]
             ELSE LET c == CanAdd(s, r.x)
                  IN  IF ~c.ok THEN [diag |-> c.diag, at |-> 1 + j]
                      ELSE ScanElems(j + 1, AddLL(s, r.x), cnt)

LeftToRightScan ==
    LET r == ReadInt(TokAt(1), 1, MaxCount)
    IN  IF ~r.ok THEN [diag |-> r.diag, at |-> 1]
        ELSE ScanElems(1, 0, r.x)

\* C4: the failure the program reports (its diagnostic, and the input token
\* it is about) is the first failure of the left-to-right scan; it reports
\* none exactly when the scan meets none.
FirstFailureReported ==
    pc = "done" => [diag |-> err, at |-> FailSite] = LeftToRightScan

\* A failure was reported at an element, and a later token of the input is
\* no integer (a later violation that is not the one reported).
FirstFailureWitness ==
    /\ pc = "done"
    /\ status = 1
    /\ FailSite >= 2
    /\ \E j \in (FailSite + 1)..Len(stdin) : stdin[j].kind = "bad"

\* C7: every element that is a decimal integer of the signed 64-bit range
\* is accepted (no parse error and no range error is reported for it), and
\* the input 2, LLONG_MAX, 1 ends with an overflow error.
ElementDomain ==
    /\ (/\ pc = "done"
        /\ n >= 1
        /\ err # <<>>
        /\ ~IsOverflowDiag(err[1]))
          => ~InLL(TokAt(FailSite))
    /\ (/\ pc = "done"
        /\ stdin = <<IntTok(2), IntTok(LLONG_MAX), IntTok(1)>>)
          => (Len(err) = 1 /\ err[1].msg = "Addition overflow")

\* C8: the program either ends with status 0 having written exactly one
\* newline-terminated line, the sum, to standard output (and nothing to the
\* error channel), or ends with a non-zero status having written nothing to
\* standard output and one diagnostic to the error channel; until it ends
\* it has written nothing.
FailFast ==
    IF pc = "done"
    THEN \/ (/\ status = 0
             /\ OneLine(out)
             /\ ReportedSum = sum
             /\ err = <<>>)
         \/ (/\ status # 0
             /\ out = <<>>
             /\ Len(err) = 1)
    ELSE out = <<>> /\ err = <<>> /\ status = -1

\* The program has failed after it had read elements.
FailFastWitness ==
    /\ pc = "done"
    /\ status # 0
    /\ i >= 1
    /\ out = <<>>

\* The program has ended with status 0 and a line on standard output.
FailFastSuccessReached == pc = "done" /\ status = 0 /\ n = MaxCount

\* C10: in solve() the count is at most MaxCount and every element of v is
\* an int, so in the summation loop |sum| <= k * 2^(IntBits-1) <=
\* MaxCount * 2^(IntBits-1) < LLINF, canAdd(sum, x) accepts on every call
\* and no overflow diagnostic is ever written.
OverflowExitUnreachable ==
    /\ MaxCount * 2^(IntBits - 1) < LLINF
    /\ pc \in {"readElem", "sumLoop"}
         => (n <= MaxCount /\ \A j \in 1..n : v[j] \in IntRange)
    /\ pc = "sumLoop"
         => /\ k <= n
            /\ Abs(sum) <= k * 2^(IntBits - 1)
            /\ k < n => CanAdd(sum, v[k + 1]).ok
    /\ \A j \in 1..Len(err) : ~IsOverflowDiag(err[j])

\* The summation loop has added MaxCount elements, each INT_MIN: the sum of
\* largest magnitude the loop can hold.
OverflowExitWitness ==
    /\ pc = "sumLoop"
    /\ k = MaxCount
    /\ sum = MaxCount * INT_MIN

\* C5: for all long long a and b the overflow-checked addition rejects the
\* pair exactly when (b > 0 and a > LLONG_MAX - b) or (b < 0 and
\* a < LLONG_MIN - b), that is exactly when a + b is not representable;
\* otherwise it accepts and yields a + b; and no value the check computes
\* leaves the long long range.
CheckedAddExact ==
    (pc = "returned" /\ ret[1].fn = "canAdd")
        => LET a == args[1]
               b == args[2]
           IN  /\ ~ret[1].ok <=> \/ (b > 0 /\ a > LLONG_MAX - b)
                                 \/ (b < 0 /\ a < LLONG_MIN - b)
               /\ ret[1].ok <=> Representable(a + b)
               /\ ret[1].ok => ret[1].val = a + b
               /\ CanAddTemps(a, b) \subseteq LLRange

\* What of C5 the code does keep: an accepted pair is added exactly, the
\* check computes no value outside the long long range, and it rejects
\* exactly the pairs whose sum lies outside [-LLINF, LLINF].
CheckedAddWithinLLINF ==
    (pc = "returned" /\ ret[1].fn = "canAdd")
        => LET a == args[1]
               b == args[2]
           IN  /\ ret[1].ok => (Representable(a + b) /\ ret[1].val = a + b)
               /\ CanAddTemps(a, b) \subseteq LLRange
               /\ (a \in (-LLINF)..LLINF)
                    => (ret[1].ok <=> (a + b \in (-LLINF)..LLINF))

\* The token readInt is called on can be extracted as an int.
Parsed == Extracts(TokAt(1))

BoundedReadWitness ==
    /\ pc = "returned"
    /\ args[1] < args[2]
    /\ ret[1].val = args[2]

BoundedReadEofReached ==
    pc = "done" /\ stdin = <<>> /\ err = <<ParseDiag>>

\* C9: for all long long a and b, canMultiply(a, b) returns true exactly
\* when the product a * b is representable in a long long.
CanMultiplyExact ==
    (pc = "returned" /\ ret[1].fn = "canMultiply")
        => (ret[1].ok <=> Representable(args[1] * args[2]))

\* C9 with the operand whose abs() is undefined left out.
CanMultiplyExactDefined ==
    (pc = "returned" /\ ret[1].fn = "canMultiply" /\ args[2] # LLONG_MIN)
        => (ret[1].ok <=> Representable(args[1] * args[2]))

\* canMultiply never accepts a product that is not representable.
CanMultiplySound ==
    (pc = "returned" /\ ret[1].fn = "canMultiply" /\ args[2] # LLONG_MIN)
        => (ret[1].ok => Representable(args[1] * args[2]))

\* The vertices joined to start by a path of at most r edges of the
\* undirected graph the addEdge calls built.
RECURSIVE Ball(_)
Ball(r) ==
    IF r = 0 THEN {start}
    ELSE LET b == Ball(r - 1)
         IN  b \cup {y \in Vertices : \E x \in b : {x, y} \in edges}

Reachable(w) == w \in Ball(vertices)

\* The number of edges on a shortest path from start to w; -1 if none.
ShortestDist(w) ==
    IF ~Reachable(w) THEN -1
    ELSE CHOOSE r \in 0..vertices :
             w \in Ball(r) /\ (r = 0 \/ w \notin Ball(r - 1))

BfsCalled == pc \in {"bfsLoop", "bfsFor", "bfsDone"}

\* What bfs() returns is the vector of shortest distances: for every vertex
\* the number of edges on a shortest path from start, -1 exactly for the
\* unreachable ones, 0 for start; no vertex is pushed twice; and while bfs()
\* has not returned it can take a step.
BfsDistancesInv ==
    /\ pc = "bfsDone"
         => /\ ret = <<distance>>
            /\ DOMAIN distance = Vertices
            /\ distance[start] = 0
            /\ \A w \in Vertices :
                   /\ distance[w] = ShortestDist(w)
                   /\ distance[w] = -1 <=> ~Reachable(w)
    /\ BfsCalled => \A w \in Vertices : pushes[w] <= 1
    /\ pc \in {"bfsLoop", "bfsFor"} => ENABLED BfsStep

\* C11: for every undirected graph built with addEdge and every valid start
\* vertex, bfs(graph, start) terminates, and what it returns gives for each
\* vertex the number of edges on a shortest path from start, -1 exactly when
\* the vertex is unreachable, and 0 for start; each vertex is enqueued at
\* most once.
BfsShortestDistances ==
    /\ []BfsDistancesInv
    /\ [](BfsCalled => <>(pc = "bfsDone"))

\* bfs() has returned on a graph with a vertex two edges from start and a
\* vertex that cannot be reached, one of its vertices having a self-loop or
\* a repeated edge.
BfsWitness ==
    /\ pc = "bfsDone"
    /\ \E w \in Vertices : distance[w] = 2
    /\ \E w \in Vertices : distance[w] = -1
    /\ \E w \in Vertices : Len(adj[w]) > Cardinality({adj[w][r] : r \in 1..Len(adj[w])})

====
